---- MODULE Spec2Model ----
(***************************************************************************)
(* InsightVault: a browser application that stores prompt templates, runs  *)
(* them against pasted text through a text-generation API, persists the    *)
(* analyses in IndexedDB and answers questions about them in a chat.       *)
(*                                                                         *)
(* The module models                                                       *)
(*   - DBService (services/db): init() and the six store operations,       *)
(*   - App: first-run seed and the view switch,                            *)
(*   - PromptManager, Analyzer, KnowledgeBase: every handler,              *)
(*   - GeminiService: analyzeText and searchDatabase.                      *)
(*                                                                         *)
(* Nine specifications share the variables:                                *)
(*   SpecInit     concurrent callers of DBService.init()                   *)
(*   SpecStore    the store operations of an opened DBService              *)
(*   Spec         the application with the user working in the Analyzer    *)
(*   SpecPrompts  the application with the user working in PromptManager   *)
(*   SpecChat     the application with the user working in KnowledgeBase   *)
(*   SpecContext  a chat over a long list of long entries                  *)
(*   SpecEdit     PromptManager over templates left by an import           *)
(*   SpecWrites   every handler that writes a template or an entry         *)
(*   SpecSave     the Analyzer with Save clicked while a write is pending  *)
(***************************************************************************)
EXTENDS Integers, Sequences, FiniteSets, TLC

\* ------------------------------------------------------------------ bounds
NumCallers == 3      \* concurrent callers of init() in SpecInit
MaxOpens == 2        \* indexedDB.open requests started in SpecInit
MaxKey == 2          \* identifiers 1..MaxKey used by the callers in SpecStore
MaxStamp == 2        \* timestamps 1..MaxStamp used by the callers in SpecStore
MaxClock == 2        \* Date.now() ranges over 1..MaxClock
MaxAnalyzerOps == 2  \* analyses and saves the user starts in the Analyzer
MaxSaveAgain == 1    \* further clicks on Save while a saveEntry of the Analyzer shown is pending
MaxPromptOps == 1    \* saves, deletes and imports the user starts in the PromptManager
MaxChatOps == 2      \* questions and deletes the user starts in the KnowledgeBase
MaxListLen == 52     \* entries loaded in SpecContext
MaxTextLen == 302    \* characters of an original text in SpecContext

VARIABLES
    \* DBService
    db,             \* this.db: FALSE is null, TRUE is an open IDBDatabase
    initPromise,    \* this.initPromise: 0 is null, k is the promise of open request k
    opens,          \* the indexedDB.open requests started so far: "pending" | "success" | "error"
    callers,        \* SpecInit: the promise each caller of init() got and how it settled
    promptStore,    \* object store 'prompts' (keyPath 'id'): a set of records
    entryStore,     \* object store 'entries' (keyPath 'id', index 'timestamp')
    dbLog           \* SpecStore: the last DBService call, how it settled and the call before it

VARIABLES
    \* App
    view,           \* App: the view shown, ViewState
    appPc,          \* App: "init" until setIsInit(true), then "ready"; "failed" when init() threw
    \* components (a component that is not mounted holds its initial state)
    an,             \* Analyzer: its useState cells
    pm,             \* PromptManager: its useState cells
    kb,             \* KnowledgeBase: its useState cells
    \* environment
    tasks,          \* promises awaited by a handler that has not resumed yet
    alertMsg,       \* the last window.alert shown
    nextId,         \* crypto.randomUUID(): the next identifier handed out
    now,            \* Date.now()
    ops,            \* the number of operations the user has started so far
    \* history
    resultFrom,     \* the request whose response an.result holds, NoRequest if none
    madeBy          \* for each entry saved, the request whose response it holds

dbVars == <<db, initPromise, opens, callers, promptStore, entryStore, dbLog>>
appVars == <<view, appPc, an, pm, kb, tasks, alertMsg, nextId, now, ops, resultFrom, madeBy>>
vars == <<dbVars, appVars>>

\* -------------------------------------------------------------- IndexedDB
\* Records are compared by key; a key is a positive number here, the key 0
\* stands for a missing or empty identifier.
Keys(store) == {r.id : r \in store}

\* IDBObjectStore.put with an in-line key: the record replaces the one stored
\* under the same key, if any.
PutRecord_Append(store, r) == store \cup {r}

PutRecord(store, r) == {x \in store : x.id # r.id} \cup {r}

\* IDBObjectStore.delete reports success whether or not the key is present.
DeleteOutcome_NotFound(store, id) == id \in Keys(store)

DeleteOutcome(store, id) == TRUE

DeleteRecord(store, id) == {x \in store : x.id # id}

\* IDBObjectStore.getAll: every record, ascending by key.
RECURSIVE SortByKey(_)
SortByKey(S) ==
    IF S = {} THEN <<>>
    ELSE LET m == CHOOSE x \in S : \A y \in S : x.id <= y.id
         IN <<m>> \o SortByKey(S \ {m})

GetAll(store) == SortByKey(store)

\* IDBIndex.getAll on the index 'timestamp': the records ascending by index
\* key, records with equal index key ascending by primary key.  The result is
\* given as the set of sequences the engine may return.
IndexBefore_StampOnly(a, b) == a.timestamp <= b.timestamp

IndexBefore(a, b) ==
    \/ a.timestamp < b.timestamp
    \/ a.timestamp = b.timestamp /\ a.id <= b.id

IndexGetAll(store) ==
    LET n == Cardinality(store)
    IN {s \in [1..n -> store] :
          /\ \A i, j \in 1..n : i # j => s[i] # s[j]
          /\ \A i, j \in 1..n : i < j => IndexBefore(s[i], s[j])}

Reverse(s) == [i \in 1..Len(s) |-> s[Len(s) + 1 - i]]

NoRec == [id |-> 0]

\* A settled call: what was called, whether the key was stored before,
\* whether the promise resolved, and the array it resolved with.  A list call
\* also keeps the call made just before it, when that call was a savePrompt or
\* a getAllEntries that resolved.
NoBefore == [op |-> "other", rec |-> NoRec, present |-> FALSE, ok |-> FALSE]

Before(call) ==
    IF call.ok /\ call.op \in {"savePrompt", "getAllEntries"}
    THEN [op |-> call.op, rec |-> call.rec, present |-> call.present, ok |-> call.ok]
    ELSE NoBefore

NoCall ==
    [op |-> "none", id |-> 0, rec |-> NoRec, present |-> FALSE, ok |-> FALSE,
     result |-> <<>>, prev |-> NoBefore]

\* ------------------------------------------------------------ components
\* Texts that are trimmed or cut are sequences of characters; titles, template
\* contents and generated texts are strings, "" being the empty string.  A
\* useState cell of type string | null holds "" for null: the code only tests
\* such cells for truthiness.
AnalyzerInitial ==
    [prompts |-> <<>>, selectedPromptId |-> 0, inputText |-> <<>>, title |-> "",
     isAnalyzing |-> FALSE, result |-> "", error |-> ""]

PromptManagerInitial ==
    [prompts |-> <<>>, isEditing |-> FALSE,
     currentPrompt |-> [id |-> 0, title |-> "", content |-> "", createdAt |-> 0]]

KnowledgeBaseInitial ==
    [entries |-> <<>>, chatQuery |-> <<>>, isChatting |-> FALSE, chatHistory |-> <<>>]

\* A request to the text-generation API; NoRequest where there is none.  seq
\* is the number of the user operation that sent it and tells two requests
\* with the same contents apart.
NoRequest ==
    [kind |-> "none", promptId |-> 0, instruction |-> "", text |-> <<>>, context |-> <<>>,
     seq |-> 0]

\* window.alert: what the last alert said; count is the number in
\* "Successfully imported N prompts."
NoAlert == [kind |-> "none", count |-> 0]
ImportedAlert(count) == [kind |-> "imported", count |-> count]
FailedAlert == [kind |-> "failed", count |-> 0]

\* The application before its first effect has run.
AppInitial ==
    /\ view = "ANALYZER"
    /\ appPc = "init"
    /\ an = AnalyzerInitial
    /\ pm = PromptManagerInitial
    /\ kb = KnowledgeBaseInitial
    /\ tasks = {}
    /\ alertMsg = NoAlert
    /\ now = 1
    /\ ops = 0
    /\ resultFrom = NoRequest
    /\ madeBy = {}

\* ------------------------------------------------------- DBService.init()
Callers == 1..NumCallers

PendingOpens == {k \in 1..Len(opens) : opens[k] = "pending"}
LiveOpens == {k \in 1..Len(opens) : opens[k] \in {"pending", "success"}}

\* init() without the initPromise check: every caller before success opens.
DBInit_NoCoalesce(c) ==
    /\ callers[c].st # "waiting"
    /\ IF db
       THEN /\ callers' = [callers EXCEPT ![c] = [st |-> "resolved", p |-> 0]]
            /\ UNCHANGED <<initPromise, opens>>
       ELSE /\ Len(opens) < MaxOpens
            /\ opens' = Append(opens, "pending")
            /\ initPromise' = Len(opens) + 1
            /\ callers' = [callers EXCEPT ![c] = [st |-> "waiting", p |-> Len(opens) + 1]]
    /\ UNCHANGED <<db, promptStore, entryStore, dbLog, appVars>>

\* One call of init() by caller c, up to the promise it returns.
DBInit(c) ==
    /\ callers[c].st # "waiting"
    /\ IF db
       THEN /\ callers' = [callers EXCEPT ![c] = [st |-> "resolved", p |-> 0]]
            /\ UNCHANGED <<initPromise, opens>>
       ELSE IF initPromise # 0
       THEN /\ callers' = [callers EXCEPT ![c] = [st |-> "waiting", p |-> initPromise]]
            /\ UNCHANGED <<initPromise, opens>>
       ELSE /\ Len(opens) < MaxOpens
            /\ opens' = Append(opens, "pending")
            /\ initPromise' = Len(opens) + 1
            /\ callers' = [callers EXCEPT ![c] = [st |-> "waiting", p |-> Len(opens) + 1]]
    /\ UNCHANGED <<db, promptStore, entryStore, dbLog, appVars>>

\* request.onsuccess of open request k
OpenSuccess(k) ==
    /\ k \in PendingOpens
    /\ opens' = [opens EXCEPT ![k] = "success"]
    /\ db' = TRUE
    /\ UNCHANGED <<initPromise, callers, promptStore, entryStore, dbLog, appVars>>

\* request.onerror of open request k
OpenError(k) ==
    /\ k \in PendingOpens
    /\ opens' = [opens EXCEPT ![k] = "error"]
    /\ initPromise' = 0
    /\ UNCHANGED <<db, callers, promptStore, entryStore, dbLog, appVars>>

\* The promise caller c awaits has settled: c resumes with its outcome.
CallerSettle(c) ==
    /\ callers[c].st = "waiting"
    /\ opens[callers[c].p] # "pending"
    /\ callers' = [callers EXCEPT ![c].st =
                     IF opens[callers[c].p] = "success" THEN "resolved" ELSE "rejected"]
    /\ UNCHANGED <<db, initPromise, opens, promptStore, entryStore, dbLog, appVars>>

InitInit ==
    /\ db = FALSE
    /\ initPromise = 0
    /\ opens = <<>>
    /\ callers = [c \in Callers |-> [st |-> "idle", p |-> 0]]
    /\ promptStore = {}
    /\ entryStore = {}
    /\ dbLog = NoCall
    /\ AppInitial
    /\ nextId = 1

NextInit ==
    \/ \E c \in Callers : DBInit(c)
    \/ \E k \in DOMAIN opens : OpenSuccess(k)
    \/ \E k \in DOMAIN opens : OpenError(k)
    \/ \E c \in Callers : CallerSettle(c)

SpecInit == InitInit /\ [][NextInit]_vars

\* ------------------------------------------- DBService store operations
\* The operations as a caller of the service sees them.  Each runs one
\* request in a transaction of its own; io = FALSE is a request that fails
\* in the engine (request.onerror), and getStore throws while db is null.
PromptInputs == [id : 1..MaxKey, title : {"A"}, content : {"X", "Y"}, createdAt : {1}]

EntryInputs == [id : 1..MaxKey, title : {"N"}, originalText : {<<"T">>}, analysis : {"R"},
                promptId : {1}, promptSnapshot : {"X"}, timestamp : 1..MaxStamp]

Logged(op, id, rec, present, ok, result) ==
    [op |-> op, id |-> id, rec |-> rec, present |-> present, ok |-> ok, result |-> result,
     prev |-> IF op \in {"getAllPrompts", "getAllEntries"} THEN Before(dbLog) ELSE NoBefore]

Log(r) == dbLog' = r

SavePrompt(p, io) ==
    LET ok == db /\ io
    IN /\ promptStore' = IF ok THEN PutRecord(promptStore, p) ELSE promptStore
       /\ Log(Logged("savePrompt", p.id, p, p.id \in Keys(promptStore), ok, <<>>))
       /\ UNCHANGED <<db, initPromise, opens, callers, entryStore, appVars>>

DeletePrompt(id, io) ==
    LET ok == db /\ io /\ DeleteOutcome(promptStore, id)
    IN /\ promptStore' = IF ok THEN DeleteRecord(promptStore, id) ELSE promptStore
       /\ Log(Logged("deletePrompt", id, NoRec, id \in Keys(promptStore), ok, <<>>))
       /\ UNCHANGED <<db, initPromise, opens, callers, entryStore, appVars>>

GetAllPrompts(io) ==
    LET ok == db /\ io
    IN /\ Log(Logged("getAllPrompts", 0, NoRec, FALSE, ok,
                     IF ok THEN GetAll(promptStore) ELSE <<>>))
       /\ UNCHANGED <<db, initPromise, opens, callers, promptStore, entryStore, appVars>>

SaveEntry(e, io) ==
    LET ok == db /\ io
    IN /\ entryStore' = IF ok THEN PutRecord(entryStore, e) ELSE entryStore
       /\ Log(Logged("saveEntry", e.id, e, e.id \in Keys(entryStore), ok, <<>>))
       /\ UNCHANGED <<db, initPromise, opens, callers, promptStore, appVars>>

DeleteEntry(id, io) ==
    LET ok == db /\ io /\ DeleteOutcome(entryStore, id)
    IN /\ entryStore' = IF ok THEN DeleteRecord(entryStore, id) ELSE entryStore
       /\ Log(Logged("deleteEntry", id, NoRec, id \in Keys(entryStore), ok, <<>>))
       /\ UNCHANGED <<db, initPromise, opens, callers, promptStore, appVars>>

\* index.getAll() reversed in memory
GetAllEntries(io) ==
    LET ok == db /\ io
    IN /\ \E s \in IndexGetAll(entryStore) :
            Log(Logged("getAllEntries", 0, NoRec, FALSE, ok,
                       IF ok THEN Reverse(s) ELSE <<>>))
       /\ UNCHANGED <<db, initPromise, opens, callers, promptStore, entryStore, appVars>>

\* An opened service with empty stores.
InitStore ==
    /\ db = TRUE
    /\ initPromise = 1
    /\ opens = <<"success">>
    /\ callers = [c \in Callers |-> [st |-> "idle", p |-> 0]]
    /\ promptStore = {}
    /\ entryStore = {}
    /\ dbLog = NoCall
    /\ AppInitial
    /\ nextId = 1

NextStore ==
    \/ \E p \in PromptInputs, io \in BOOLEAN : SavePrompt(p, io)
    \/ \E id \in 1..MaxKey, io \in BOOLEAN : DeletePrompt(id, io)
    \/ \E io \in BOOLEAN : GetAllPrompts(io)
    \/ \E e \in EntryInputs, io \in BOOLEAN : SaveEntry(e, io)
    \/ \E id \in 1..MaxKey, io \in BOOLEAN : DeleteEntry(id, io)
    \/ \E io \in BOOLEAN : GetAllEntries(io)

SpecStore == InitStore /\ [][NextStore]_vars

\* ------------------------------------------------------------ environment
Min(S) == CHOOSE x \in S : \A y \in S : x <= y

\* String.prototype.trim on a sequence of characters
IsSpace(ch) == ch = " "

RECURSIVE TrimStart(_)
TrimStart(s) ==
    IF s # <<>> /\ IsSpace(Head(s)) THEN TrimStart(Tail(s)) ELSE s

RECURSIVE TrimEnd(_)
TrimEnd(s) ==
    IF s # <<>> /\ IsSpace(s[Len(s)]) THEN TrimEnd(SubSeq(s, 1, Len(s) - 1)) ELSE s

Trim(s) == TrimEnd(TrimStart(s))

\* Array.prototype.find by identifier; a record with id 0 is undefined
Find(list, id) ==
    LET hits == {i \in DOMAIN list : list[i].id = id}
    IN IF hits = {} THEN NoRec ELSE list[Min(hits)]

\* A promise a handler awaits.  owner is the component whose handler awaits
\* it, live says whether that component instance is still mounted, ok whether
\* a store request resolves, data is the array it resolves with, req the
\* request sent to the text-generation API, n and pos numbers the handler
\* keeps.
Task(kind, owner, ok, data, req, n) ==
    [kind |-> kind, owner |-> owner, live |-> TRUE, ok |-> ok, data |-> data,
     req |-> req, n |-> n, pos |-> 0]

\* The component shown unmounts.  A handler that resumes later finds its
\* setState calls ignored; a load does nothing but setState, so a pending
\* load of an unmounted component is dropped here.
Unmounted(T) == {[t EXCEPT !.live = FALSE] : t \in {u \in T : u.kind # "load"}}

Shown(v) == appPc = "ready" /\ view = v

\* What the provider does with a request: it answers with a text, with an
\* empty text, or the request fails.
ProviderOutcomes == {"text", "empty", "error"}

ProviderText(outcome) == IF outcome = "text" THEN "R" ELSE ""

\* The load a component starts from its mount effect: loadPrompts in
\* Analyzer and PromptManager, loadEntries in KnowledgeBase.
MountLoads(v, io) ==
    IF v = "DATABASE"
    THEN {Task("load", v, io, IF io THEN Reverse(s) ELSE <<>>, NoRequest, 0) : s \in IndexGetAll(entryStore)}
    ELSE {Task("load", v, io, IF io THEN GetAll(promptStore) ELSE <<>>, NoRequest, 0)}

\* setView(v) with v another view: the view shown unmounts, the component of
\* v mounts with fresh state and starts its load.  T are the promises pending.
ShowView(v, T, io) ==
    /\ view' = v
    /\ an' = AnalyzerInitial
    /\ pm' = PromptManagerInitial
    /\ kb' = KnowledgeBaseInitial
    /\ resultFrom' = NoRequest
    /\ \E l \in MountLoads(v, io) : tasks' = Unmounted(T) \cup {l}

\* -------------------------------------------------------------------- App
\* The mount effect of App up to the await of dbService.init()
AppStart ==
    /\ appPc = "init"
    /\ callers[1].st = "idle"
    /\ DBInit(1)

\* The rest of the mount effect, once init() has resolved: list the templates,
\* seed the default one if there is none, setIsInit(true).  io = FALSE is a
\* store request that fails: the effect throws and isInit stays false.
SeedPrompt ==
    [id |-> nextId, title |-> "General Summary", content |-> "Summarize", createdAt |-> now]

AppSeed(io) ==
    /\ appPc = "init"
    /\ callers[1].st = "resolved"
    /\ IF io
       THEN /\ appPc' = "ready"
            /\ IF GetAll(promptStore) = <<>>
               THEN /\ promptStore' = PutRecord(promptStore, SeedPrompt)
                    /\ nextId' = nextId + 1
                    /\ tasks' = {Task("load", "ANALYZER", TRUE, GetAll(promptStore'), NoRequest, 0)}
               ELSE /\ tasks' = MountLoads("ANALYZER", TRUE)
                    /\ UNCHANGED <<promptStore, nextId>>
       ELSE /\ appPc' = "failed"
            /\ UNCHANGED <<promptStore, nextId, tasks>>
    /\ UNCHANGED <<db, initPromise, opens, callers, entryStore, dbLog>>
    /\ UNCHANGED <<view, an, pm, kb, alertMsg, now, ops, resultFrom, madeBy>>

\* A click on a NavButton of another view
SetView(v, io) ==
    /\ appPc = "ready"
    /\ v # view
    /\ ShowView(v, tasks, io)
    /\ UNCHANGED <<dbVars, appPc, alertMsg, nextId, now, ops, madeBy>>

\* Time passes
Tick ==
    /\ appPc = "ready"
    /\ now < MaxClock
    /\ now' = now + 1
    /\ UNCHANGED <<dbVars, view, appPc, an, pm, kb, tasks, alertMsg, nextId, ops, resultFrom, madeBy>>

\* --------------------------------------------------------------- Analyzer
InputTexts == {<<>>, <<" ">>, <<"T">>}
Titles == {"", "N"}

\* loadPrompts resumes
AnLoadDone(t) ==
    /\ t \in tasks /\ t.kind = "load" /\ t.owner = "ANALYZER"
    /\ tasks' = tasks \ {t}
    /\ an' = IF t.live /\ t.ok
             THEN [an EXCEPT !.prompts = t.data,
                             !.selectedPromptId = IF Len(t.data) > 0 THEN t.data[1].id ELSE @]
             ELSE an
    /\ UNCHANGED <<dbVars, view, appPc, pm, kb, alertMsg, nextId, now, ops, resultFrom, madeBy>>

AnSetInput(x) ==
    /\ Shown("ANALYZER")
    /\ x # an.inputText
    /\ an' = [an EXCEPT !.inputText = x]
    /\ UNCHANGED <<dbVars, view, appPc, pm, kb, tasks, alertMsg, nextId, now, ops, resultFrom, madeBy>>

AnSetTitle(x) ==
    /\ Shown("ANALYZER")
    /\ x # an.title
    /\ an' = [an EXCEPT !.title = x]
    /\ UNCHANGED <<dbVars, view, appPc, pm, kb, tasks, alertMsg, nextId, now, ops, resultFrom, madeBy>>

\* The select offers the loaded templates
AnSelect(id) ==
    /\ Shown("ANALYZER")
    /\ id # an.selectedPromptId
    /\ \E i \in DOMAIN an.prompts : an.prompts[i].id = id
    /\ an' = [an EXCEPT !.selectedPromptId = id]
    /\ UNCHANGED <<dbVars, view, appPc, pm, kb, tasks, alertMsg, nextId, now, ops, resultFrom, madeBy>>

\* GeminiService.analyzeText: the request it sends and what it returns
AnalyzeRequest(text, promptObj) ==
    [kind |-> "analyze", promptId |-> promptObj.id, instruction |-> promptObj.content,
     text |-> text, context |-> <<>>, seq |-> ops + 1]

\* response.text || "No response generated."
AnalyzeText_NoFallback(outcome) == ProviderText(outcome)

AnalyzeText(outcome) ==
    IF ProviderText(outcome) # "" THEN ProviderText(outcome) ELSE "No response generated."

\* !inputText.trim()
InputMissing_NoTrim(text) == text = <<>>

InputMissing(text) == Trim(text) = <<>>

\* handleRunAnalysis up to its await; the button is disabled while
\* isAnalyzing or while no templates are loaded
AnRunAnalysis ==
    /\ Shown("ANALYZER")
    /\ ~an.isAnalyzing /\ Len(an.prompts) > 0
    /\ IF InputMissing(an.inputText)
       THEN /\ an' = [an EXCEPT !.error = "Please enter text to analyze."]
            /\ UNCHANGED <<tasks, ops, resultFrom>>
       ELSE IF an.selectedPromptId = 0
       THEN /\ an' = [an EXCEPT !.error = "Please select a prompt."]
            /\ UNCHANGED <<tasks, ops, resultFrom>>
       ELSE LET promptObj == Find(an.prompts, an.selectedPromptId)
            IN IF promptObj.id = 0
               THEN UNCHANGED <<an, tasks, ops, resultFrom>>
               ELSE /\ ops < MaxAnalyzerOps
                    /\ ops' = ops + 1
                    /\ an' = [an EXCEPT !.isAnalyzing = TRUE, !.error = "", !.result = ""]
                    /\ resultFrom' = NoRequest
                    /\ tasks' = tasks \cup {Task("run", "ANALYZER", TRUE, <<>>,
                                                 AnalyzeRequest(an.inputText, promptObj), 0)}
    /\ UNCHANGED <<dbVars, view, appPc, pm, kb, alertMsg, nextId, now, madeBy>>

\* analyzeText settles and handleRunAnalysis resumes
AnRunDone(t, outcome) ==
    /\ t \in tasks /\ t.kind = "run"
    /\ tasks' = tasks \ {t}
    /\ IF ~t.live
       THEN UNCHANGED <<an, resultFrom>>
       ELSE IF outcome = "error"
       THEN /\ an' = [an EXCEPT !.isAnalyzing = FALSE,
                                !.error = "Failed to generate analysis. Please check your connection and API key."]
            /\ UNCHANGED resultFrom
       ELSE /\ an' = [an EXCEPT !.isAnalyzing = FALSE, !.result = AnalyzeText(outcome)]
            /\ resultFrom' = t.req
    /\ UNCHANGED <<dbVars, view, appPc, pm, kb, alertMsg, nextId, now, ops, madeBy>>

\* The entry of handleSave without the default title
NewEntry_NoDefaultTitle(promptObj) ==
    [id |-> nextId,
     title |-> an.title,
     originalText |-> an.inputText,
     analysis |-> an.result,
     promptId |-> promptObj.id,
     promptSnapshot |-> promptObj.content,
     timestamp |-> now]

\* The entry handleSave builds
NewEntry(promptObj) ==
    [id |-> nextId,
     title |-> IF an.title # "" THEN an.title ELSE "Analysis - date",
     originalText |-> an.inputText,
     analysis |-> an.result,
     promptId |-> promptObj.id,
     promptSnapshot |-> promptObj.content,
     timestamp |-> now]

\* handleSave without the test of result
HandleSave_NoResultCheck(limit, io) ==
    /\ Shown("ANALYZER")
    /\ LET promptObj == Find(an.prompts, an.selectedPromptId)
       IN IF an.selectedPromptId = 0 \/ promptObj.id = 0
          THEN UNCHANGED <<entryStore, tasks, nextId, ops, madeBy>>
          ELSE /\ ops < limit
               /\ ops' = ops + 1
               /\ entryStore' = IF io THEN PutRecord(entryStore, NewEntry(promptObj))
                                ELSE entryStore
               /\ madeBy' = IF io THEN madeBy \cup {<<nextId, resultFrom>>} ELSE madeBy
               /\ nextId' = nextId + 1
               /\ tasks' = tasks \cup {Task("save", "ANALYZER", io, <<>>, NoRequest, nextId)}
    /\ UNCHANGED <<db, initPromise, opens, callers, promptStore, dbLog>>
    /\ UNCHANGED <<view, appPc, an, pm, kb, alertMsg, now, resultFrom>>

\* handleSave up to its await, started while fewer than limit operations have
\* been started
HandleSave(limit, io) ==
    /\ Shown("ANALYZER")
    /\ an.result # ""
    /\ LET promptObj == Find(an.prompts, an.selectedPromptId)
       IN IF an.selectedPromptId = 0 \/ promptObj.id = 0
          THEN UNCHANGED <<entryStore, tasks, nextId, ops, madeBy>>
          ELSE /\ ops < limit
               /\ ops' = ops + 1
               /\ entryStore' = IF io THEN PutRecord(entryStore, NewEntry(promptObj))
                                ELSE entryStore
               /\ madeBy' = IF io THEN madeBy \cup {<<nextId, resultFrom>>} ELSE madeBy
               /\ nextId' = nextId + 1
               /\ tasks' = tasks \cup {Task("save", "ANALYZER", io, <<>>, NoRequest, nextId)}
    /\ UNCHANGED <<db, initPromise, opens, callers, promptStore, dbLog>>
    /\ UNCHANGED <<view, appPc, an, pm, kb, alertMsg, now, resultFrom>>

\* A click on Save to Database; the button is rendered while result is set
AnSave(io) == HandleSave(MaxAnalyzerOps, io)

\* A saveEntry started by the Analyzer shown has not settled
SavePending == \E t \in tasks : t.kind = "save" /\ t.live

\* A further click on Save to Database while a saveEntry is pending: the
\* button is not disabled and the result is still shown
AnSaveAgain(io) == SavePending /\ HandleSave(MaxAnalyzerOps + MaxSaveAgain, io)

\* saveEntry settles and handleSave resumes: the form is reset and
\* onSaveComplete shows the knowledge base
AnSaveDone(t, io) ==
    /\ t \in tasks /\ t.kind = "save"
    /\ IF t.ok /\ view # "DATABASE"
       THEN ShowView("DATABASE", tasks \ {t}, io)
       ELSE /\ io
            /\ tasks' = tasks \ {t}
            /\ UNCHANGED <<view, an, pm, kb, resultFrom>>
    /\ UNCHANGED <<dbVars, appPc, alertMsg, nextId, now, ops, madeBy>>

\* ---------------------------------------------------------- PromptManager
PromptTitles == {"", "A"}
PromptContents == {"", "X"}

\* The parsed contents of the files the user imports: a value that is not an
\* array, one object with title and content only, and an object without
\* content followed by a complete template under the identifier 1.  A missing
\* property is 0 or "".
ImportFiles ==
    {[isList |-> FALSE, items |-> <<>>],
     [isList |-> TRUE, items |-> <<[id |-> 0, title |-> "A", content |-> "X", createdAt |-> 0]>>],
     [isList |-> TRUE, items |-> <<[id |-> 0, title |-> "A", content |-> "", createdAt |-> 0],
                                   [id |-> 1, title |-> "A", content |-> "Y", createdAt |-> 1]>>]}

\* loadPrompts, called by a handler of a mounted PromptManager
PmLoad(live, io) ==
    IF live THEN MountLoads("PROMPTS", io) ELSE {}

\* loadPrompts resumes
PmLoadDone(t) ==
    /\ t \in tasks /\ t.kind = "load" /\ t.owner = "PROMPTS"
    /\ tasks' = tasks \ {t}
    /\ pm' = IF t.live /\ t.ok THEN [pm EXCEPT !.prompts = t.data] ELSE pm
    /\ UNCHANGED <<dbVars, view, appPc, an, kb, alertMsg, nextId, now, ops, resultFrom, madeBy>>

\* handleEdit: i = 0 is the New Prompt button, otherwise the edit button of
\* the i-th template listed; the editor covers the list while it is open
PmEdit(i) ==
    /\ Shown("PROMPTS")
    /\ ~pm.isEditing
    /\ i = 0 \/ i \in DOMAIN pm.prompts
    /\ pm' = [pm EXCEPT !.isEditing = TRUE,
                        !.currentPrompt =
                            IF i = 0 THEN [id |-> 0, title |-> "", content |-> "", createdAt |-> 0]
                            ELSE pm.prompts[i]]
    /\ UNCHANGED <<dbVars, view, appPc, an, kb, tasks, alertMsg, nextId, now, ops, resultFrom, madeBy>>

PmSetTitle(x) ==
    /\ Shown("PROMPTS")
    /\ pm.isEditing
    /\ x # pm.currentPrompt.title
    /\ pm' = [pm EXCEPT !.currentPrompt.title = x]
    /\ UNCHANGED <<dbVars, view, appPc, an, kb, tasks, alertMsg, nextId, now, ops, resultFrom, madeBy>>

PmSetContent(x) ==
    /\ Shown("PROMPTS")
    /\ pm.isEditing
    /\ x # pm.currentPrompt.content
    /\ pm' = [pm EXCEPT !.currentPrompt.content = x]
    /\ UNCHANGED <<dbVars, view, appPc, an, kb, tasks, alertMsg, nextId, now, ops, resultFrom, madeBy>>

PmCancel ==
    /\ Shown("PROMPTS")
    /\ pm.isEditing
    /\ pm' = [pm EXCEPT !.isEditing = FALSE]
    /\ UNCHANGED <<dbVars, view, appPc, an, kb, tasks, alertMsg, nextId, now, ops, resultFrom, madeBy>>

\* The record handleSave writes
PromptToSave ==
    [id |-> IF pm.currentPrompt.id # 0 THEN pm.currentPrompt.id ELSE nextId,
     title |-> pm.currentPrompt.title,
     content |-> pm.currentPrompt.content,
     createdAt |-> IF pm.currentPrompt.createdAt # 0 THEN pm.currentPrompt.createdAt ELSE now]

\* handleSave up to its await; the button is disabled while title or content
\* is empty
PmSave(io) ==
    /\ Shown("PROMPTS")
    /\ pm.isEditing
    /\ pm.currentPrompt.title # "" /\ pm.currentPrompt.content # ""
    /\ ops < MaxPromptOps
    /\ ops' = ops + 1
    /\ nextId' = IF pm.currentPrompt.id = 0 THEN nextId + 1 ELSE nextId
    /\ promptStore' = IF io THEN PutRecord(promptStore, PromptToSave) ELSE promptStore
    /\ tasks' = tasks \cup {Task("savePrompt", "PROMPTS", io, <<>>, NoRequest, PromptToSave.id)}
    /\ UNCHANGED <<db, initPromise, opens, callers, entryStore, dbLog>>
    /\ UNCHANGED <<view, appPc, an, pm, kb, alertMsg, now, resultFrom, madeBy>>

\* savePrompt settles and handleSave resumes; a rejection ends the handler
PmSaveDone(t, io) ==
    /\ t \in tasks /\ t.kind = "savePrompt"
    /\ IF t.ok
       THEN /\ pm' = IF t.live THEN [pm EXCEPT !.isEditing = FALSE] ELSE pm
            /\ \E l \in PmLoad(t.live, io) \cup (IF t.live THEN {} ELSE {t}) :
                    tasks' = (tasks \ {t}) \cup ({l} \ {t})
       ELSE /\ io
            /\ tasks' = tasks \ {t}
            /\ UNCHANGED pm
    /\ UNCHANGED <<dbVars, view, appPc, an, kb, alertMsg, nextId, now, ops, resultFrom, madeBy>>

\* handleDelete deleting the entries of the template with it
PmDelete_Cascade(i, io) ==
    /\ Shown("PROMPTS")
    /\ ~pm.isEditing
    /\ i \in DOMAIN pm.prompts
    /\ ops < MaxPromptOps
    /\ ops' = ops + 1
    /\ LET id == pm.prompts[i].id
           ok == io /\ DeleteOutcome(promptStore, id)
       IN /\ promptStore' = IF ok THEN DeleteRecord(promptStore, id) ELSE promptStore
          /\ entryStore' = IF ok THEN {e \in entryStore : e.promptId # id} ELSE entryStore
          /\ tasks' = tasks \cup {Task("deletePrompt", "PROMPTS", ok, <<>>, NoRequest, id)}
    /\ UNCHANGED <<db, initPromise, opens, callers, dbLog>>
    /\ UNCHANGED <<view, appPc, an, pm, kb, alertMsg, nextId, now, resultFrom, madeBy>>

\* handleDelete of the i-th template listed, confirmed, up to its await
PmDelete(i, io) ==
    /\ Shown("PROMPTS")
    /\ ~pm.isEditing
    /\ i \in DOMAIN pm.prompts
    /\ ops < MaxPromptOps
    /\ ops' = ops + 1
    /\ LET id == pm.prompts[i].id
           ok == io /\ DeleteOutcome(promptStore, id)
       IN /\ promptStore' = IF ok THEN DeleteRecord(promptStore, id) ELSE promptStore
          /\ tasks' = tasks \cup {Task("deletePrompt", "PROMPTS", ok, <<>>, NoRequest, id)}
    /\ UNCHANGED <<db, initPromise, opens, callers, entryStore, dbLog>>
    /\ UNCHANGED <<view, appPc, an, pm, kb, alertMsg, nextId, now, resultFrom, madeBy>>

\* deletePrompt settles and handleDelete resumes
PmDeleteDone(t, io) ==
    /\ t \in tasks /\ t.kind = "deletePrompt"
    /\ IF t.ok
       THEN \E l \in PmLoad(t.live, io) \cup (IF t.live THEN {} ELSE {t}) :
                tasks' = (tasks \ {t}) \cup ({l} \ {t})
       ELSE io /\ tasks' = tasks \ {t}
    /\ UNCHANGED <<dbVars, view, appPc, an, pm, kb, alertMsg, nextId, now, ops, resultFrom, madeBy>>

\* handleImport: the file is handed to the FileReader.  For a task of kind
\* "import", ok says that the file parsed to an array, data holds its items,
\* pos is the number of items the loop has passed and n is count.
PmImport(file) ==
    /\ Shown("PROMPTS")
    /\ ~pm.isEditing
    /\ ops < MaxPromptOps
    /\ ops' = ops + 1
    /\ tasks' = tasks \cup {Task("import", "PROMPTS", file.isList, file.items, NoRequest, 0)}
    /\ UNCHANGED <<dbVars, view, appPc, an, pm, kb, alertMsg, nextId, now, resultFrom, madeBy>>

\* if (p.title && p.content)
ImportValid_NoCheck(p) == TRUE

ImportValid(p) == p.title # "" /\ p.content # ""

\* The position of the first item after pos that has title and content, 0 if none
NextValid(items, pos) ==
    LET valid == {i \in DOMAIN items : i > pos /\ ImportValid(items[i])}
    IN IF valid = {} THEN 0 ELSE Min(valid)

\* { ...p, id: p.id || crypto.randomUUID() }
ImportRecord_KeepId(p) == p

ImportRecord(p) == [p EXCEPT !.id = IF p.id # 0 THEN p.id ELSE nextId]

\* reader.onload runs up to its next await: the items without title or
\* content are passed over, the next one is written with savePrompt; after the
\* last item the count is reported and the list reloaded.  A value that is
\* not an array and a write that fails end in the catch block.
PmImportStep(t, io) ==
    /\ t \in tasks /\ t.kind = "import"
    /\ LET i == NextValid(t.data, t.pos)
       IN IF ~t.ok
          THEN /\ io
               /\ alertMsg' = FailedAlert
               /\ tasks' = tasks \ {t}
               /\ UNCHANGED <<promptStore, nextId>>
          ELSE IF i = 0
          THEN /\ alertMsg' = ImportedAlert(t.n)
               /\ \E l \in PmLoad(t.live, io) \cup (IF t.live THEN {} ELSE {t}) :
                       tasks' = (tasks \ {t}) \cup ({l} \ {t})
               /\ UNCHANGED <<promptStore, nextId>>
          ELSE /\ nextId' = IF t.data[i].id = 0 THEN nextId + 1 ELSE nextId
               /\ IF io
                  THEN /\ promptStore' = PutRecord(promptStore, ImportRecord(t.data[i]))
                       /\ tasks' = (tasks \ {t}) \cup {[t EXCEPT !.pos = i, !.n = t.n + 1]}
                       /\ UNCHANGED alertMsg
                  ELSE /\ alertMsg' = FailedAlert
                       /\ tasks' = tasks \ {t}
                       /\ UNCHANGED promptStore
    /\ UNCHANGED <<db, initPromise, opens, callers, entryStore, dbLog>>
    /\ UNCHANGED <<view, appPc, an, pm, kb, now, ops, resultFrom, madeBy>>

\* ---------------------------------------------------------- KnowledgeBase
ChatQueries == {<<>>, <<" ">>, <<"Q">>}

SliceEnd == 50       \* entries.slice(0, 50)
ExcerptEnd == 300    \* originalText.substring(0, 300)

\* loadEntries, called by a handler of a mounted KnowledgeBase
KbLoad(live, io) ==
    IF live THEN MountLoads("DATABASE", io) ELSE {}

\* loadEntries resumes
KbLoadDone(t) ==
    /\ t \in tasks /\ t.kind = "load" /\ t.owner = "DATABASE"
    /\ tasks' = tasks \ {t}
    /\ kb' = IF t.live /\ t.ok THEN [kb EXCEPT !.entries = t.data] ELSE kb
    /\ UNCHANGED <<dbVars, view, appPc, an, pm, alertMsg, nextId, now, ops, resultFrom, madeBy>>

\* onChange of the chat input, which is disabled while isChatting
KbSetQuery(x) ==
    /\ Shown("DATABASE")
    /\ ~kb.isChatting
    /\ x # kb.chatQuery
    /\ kb' = [kb EXCEPT !.chatQuery = x]
    /\ UNCHANGED <<dbVars, view, appPc, an, pm, tasks, alertMsg, nextId, now, ops, resultFrom, madeBy>>

\* searchDatabase without the slice
ContextData_NoSlice(entries) ==
    [i \in 1..Len(entries) |->
        [id |-> entries[i].id,
         timestamp |-> entries[i].timestamp,
         title |-> entries[i].title,
         analysis |-> entries[i].analysis,
         excerpt |-> SubSeq(entries[i].originalText, 1,
                            Min({Len(entries[i].originalText), ExcerptEnd}))]]

\* The context document searchDatabase builds: one block for each of the
\* first 50 entries, with the first 300 characters of the original text
ContextData(entries) ==
    [i \in 1..Min({Len(entries), SliceEnd}) |->
        [id |-> entries[i].id,
         timestamp |-> entries[i].timestamp,
         title |-> entries[i].title,
         analysis |-> entries[i].analysis,
         excerpt |-> SubSeq(entries[i].originalText, 1,
                            Min({Len(entries[i].originalText), ExcerptEnd}))]]

SearchRequest(query, entries) ==
    [kind |-> "search", promptId |-> 0, instruction |-> "knowledge base assistant",
     text |-> query, context |-> ContextData(entries), seq |-> ops + 1]

\* response.text || "I couldn't find an answer in your database."
SearchDatabase_NoFallback(outcome) == ProviderText(outcome)

SearchDatabase(outcome) ==
    IF ProviderText(outcome) # "" THEN ProviderText(outcome)
    ELSE "I couldn't find an answer in your database."

ChatMessage(role, text) == [role |-> role, text |-> text, timestamp |-> now]

\* handleSmartSearch up to its await; the submit button is disabled while
\* isChatting or while the query is blank
KbSmartSearch ==
    /\ Shown("DATABASE")
    /\ ~kb.isChatting
    /\ Trim(kb.chatQuery) # <<>>
    /\ ops < MaxChatOps
    /\ ops' = ops + 1
    /\ kb' = [kb EXCEPT !.chatHistory = Append(@, ChatMessage("user", kb.chatQuery)),
                        !.isChatting = TRUE,
                        !.chatQuery = <<>>]
    /\ tasks' = tasks \cup {Task("ask", "DATABASE", TRUE, <<>>,
                                 SearchRequest(kb.chatQuery, kb.entries), 0)}
    /\ UNCHANGED <<dbVars, view, appPc, an, pm, alertMsg, nextId, now, resultFrom, madeBy>>

\* handleSmartSearch resuming without the finally block
KbAskDone_NoFinally(t, outcome) ==
    /\ t \in tasks /\ t.kind = "ask"
    /\ tasks' = tasks \ {t}
    /\ IF ~t.live
       THEN UNCHANGED kb
       ELSE kb' = [kb EXCEPT
                !.chatHistory = Append(@, ChatMessage("model",
                    IF outcome = "error"
                    THEN "Sorry, I encountered an error searching your database."
                    ELSE SearchDatabase(outcome))),
                !.isChatting = (outcome = "error")]
    /\ UNCHANGED <<dbVars, view, appPc, an, pm, alertMsg, nextId, now, ops, resultFrom, madeBy>>

\* searchDatabase settles and handleSmartSearch resumes
KbAskDone(t, outcome) ==
    /\ t \in tasks /\ t.kind = "ask"
    /\ tasks' = tasks \ {t}
    /\ IF ~t.live
       THEN UNCHANGED kb
       ELSE kb' = [kb EXCEPT
                !.chatHistory = Append(@, ChatMessage("model",
                    IF outcome = "error"
                    THEN "Sorry, I encountered an error searching your database."
                    ELSE SearchDatabase(outcome))),
                !.isChatting = FALSE]
    /\ UNCHANGED <<dbVars, view, appPc, an, pm, alertMsg, nextId, now, ops, resultFrom, madeBy>>

\* handleDelete of the i-th entry listed, confirmed, up to its first await
KbDelete(i, io) ==
    /\ Shown("DATABASE")
    /\ i \in DOMAIN kb.entries
    /\ ops < MaxChatOps
    /\ ops' = ops + 1
    /\ LET id == kb.entries[i].id
           ok == io /\ DeleteOutcome(entryStore, id)
       IN /\ entryStore' = IF ok THEN DeleteRecord(entryStore, id) ELSE entryStore
          /\ tasks' = tasks \cup {Task("deleteEntry", "DATABASE", ok, <<>>, NoRequest, id)}
    /\ UNCHANGED <<db, initPromise, opens, callers, promptStore, dbLog>>
    /\ UNCHANGED <<view, appPc, an, pm, kb, alertMsg, nextId, now, resultFrom, madeBy>>

\* deleteEntry settles and handleDelete resumes with loadEntries
KbDeleteDone(t, io) ==
    /\ t \in tasks /\ t.kind = "deleteEntry"
    /\ IF t.ok
       THEN \E l \in KbLoad(t.live, io) \cup (IF t.live THEN {} ELSE {t}) :
                tasks' = (tasks \ {t}) \cup ({l} \ {t})
       ELSE io /\ tasks' = tasks \ {t}
    /\ UNCHANGED <<dbVars, view, appPc, an, pm, kb, alertMsg, nextId, now, ops, resultFrom, madeBy>>

\* --------------------------------------------------------- specifications
\* A page load: nothing is open, the stores hold what earlier sessions left
\* in them and no identifier from firstId on is in use.
PageLoad(prompts, entries, firstId) ==
    /\ db = FALSE
    /\ initPromise = 0
    /\ opens = <<>>
    /\ callers = [c \in Callers |-> [st |-> "idle", p |-> 0]]
    /\ promptStore = prompts
    /\ entryStore = entries
    /\ dbLog = NoCall
    /\ AppInitial
    /\ nextId = firstId

\* Two templates saved in an earlier session, which took identifiers 1 and 2
StoredPrompts ==
    {[id |-> 1, title |-> "General Summary", content |-> "Summarize", createdAt |-> 1],
     [id |-> 2, title |-> "A", content |-> "X", createdAt |-> 1]}

\* An entry saved in an earlier session from a template deleted since
StoredEntries ==
    {[id |-> 9, title |-> "Analysis - date", originalText |-> <<"T">>, analysis |-> "R",
      promptId |-> 8, promptSnapshot |-> "Summarize", timestamp |-> 1]}

\* The default template as an earlier session seeded it, and an entry saved
\* from it
SeededPrompts ==
    {[id |-> 1, title |-> "General Summary", content |-> "Summarize", createdAt |-> 1]}

EntriesOfSeed ==
    {[id |-> 9, title |-> "Analysis - date", originalText |-> <<"T">>, analysis |-> "R",
      promptId |-> 1, promptSnapshot |-> "Summarize", timestamp |-> 1]}

\* The first run, or a later run that finds the two templates.
Init ==
    \/ PageLoad({}, {}, 1)
    \/ PageLoad(StoredPrompts, {}, 3)

Next ==
    \/ AppStart
    \/ \E k \in DOMAIN opens : OpenSuccess(k)
    \/ \E k \in DOMAIN opens : OpenError(k)
    \/ CallerSettle(1)
    \/ \E io \in BOOLEAN : AppSeed(io)
    \/ \E v \in {"ANALYZER", "DATABASE", "PROMPTS"}, io \in BOOLEAN : SetView(v, io)
    \/ \E t \in tasks : AnLoadDone(t)
    \/ \E t \in tasks : PmLoadDone(t)
    \/ \E t \in tasks : KbLoadDone(t)
    \/ \E x \in InputTexts : AnSetInput(x)
    \/ \E x \in Titles : AnSetTitle(x)
    \/ \E id \in Keys(promptStore) : AnSelect(id)
    \/ AnRunAnalysis
    \/ \E t \in tasks, outcome \in ProviderOutcomes : AnRunDone(t, outcome)
    \/ \E io \in BOOLEAN : AnSave(io)
    \/ \E t \in tasks, io \in BOOLEAN : AnSaveDone(t, io)

Spec == Init /\ [][Next]_vars


\* A page load that finds no template and one entry, or the default template
\* and an entry saved from it
InitPrompts ==
    \/ PageLoad({}, StoredEntries, 1)
    \/ PageLoad(SeededPrompts, EntriesOfSeed, 2)

NextPrompts ==
    \/ AppStart
    \/ \E k \in DOMAIN opens : OpenSuccess(k)
    \/ \E k \in DOMAIN opens : OpenError(k)
    \/ CallerSettle(1)
    \/ \E io \in BOOLEAN : AppSeed(io)
    \/ \E v \in {"ANALYZER", "DATABASE", "PROMPTS"}, io \in BOOLEAN : SetView(v, io)
    \/ Tick
    \/ \E t \in tasks : AnLoadDone(t)
    \/ \E t \in tasks : PmLoadDone(t)
    \/ \E t \in tasks : KbLoadDone(t)
    \/ \E i \in {0} \cup DOMAIN pm.prompts : PmEdit(i)
    \/ \E x \in PromptTitles : PmSetTitle(x)
    \/ \E x \in PromptContents : PmSetContent(x)
    \/ PmCancel
    \/ \E io \in BOOLEAN : PmSave(io)
    \/ \E t \in tasks, io \in BOOLEAN : PmSaveDone(t, io)
    \/ \E i \in DOMAIN pm.prompts, io \in BOOLEAN : PmDelete(i, io)
    \/ \E t \in tasks, io \in BOOLEAN : PmDeleteDone(t, io)
    \/ \E file \in ImportFiles : PmImport(file)
    \/ \E t \in tasks, io \in BOOLEAN : PmImportStep(t, io)

SpecPrompts == InitPrompts /\ [][NextPrompts]_vars

\* A page load that finds the two templates and no entry, or the two
\* templates and one entry
InitChat ==
    \/ PageLoad(StoredPrompts, {}, 3)
    \/ PageLoad(StoredPrompts, StoredEntries, 3)

NextChat ==
    \/ AppStart
    \/ \E k \in DOMAIN opens : OpenSuccess(k)
    \/ \E k \in DOMAIN opens : OpenError(k)
    \/ CallerSettle(1)
    \/ \E io \in BOOLEAN : AppSeed(io)
    \/ \E v \in {"ANALYZER", "DATABASE", "PROMPTS"}, io \in BOOLEAN : SetView(v, io)
    \/ \E t \in tasks : AnLoadDone(t)
    \/ \E t \in tasks : PmLoadDone(t)
    \/ \E t \in tasks : KbLoadDone(t)
    \/ \E x \in ChatQueries : KbSetQuery(x)
    \/ KbSmartSearch
    \/ \E t \in tasks, outcome \in ProviderOutcomes : KbAskDone(t, outcome)
    \/ \E i \in DOMAIN kb.entries, io \in BOOLEAN : KbDelete(i, io)
    \/ \E t \in tasks, io \in BOOLEAN : KbDeleteDone(t, io)

SpecChat == InitChat /\ [][NextChat]_vars

\* A KnowledgeBase that has loaded n entries as getAllEntries returns them,
\* newest first and, for equal timestamps, greatest identifier first; every
\* original text has len characters, each different from the others; step
\* entries in a row share a timestamp.
ListLens == (0..2) \cup ((SliceEnd - 1)..MaxListLen)
TextLens == (0..1) \cup ((ExcerptEnd - 1)..MaxTextLen)

LongText(len) == [j \in 1..len |-> ToString(j)]

LoadedEntries(n, len, step) ==
    [i \in 1..n |->
        [id |-> n - i + 1, title |-> "Analysis - date", originalText |-> LongText(len),
         analysis |-> "R", promptId |-> 1, promptSnapshot |-> "Summarize",
         timestamp |-> ((n - i) \div step) + 1]]

InitContext ==
    \E n \in ListLens, len \in TextLens, step \in 1..2 :
        /\ db = TRUE
        /\ initPromise = 1
        /\ opens = <<"success">>
        /\ callers = [c \in Callers |-> [st |-> IF c = 1 THEN "resolved" ELSE "idle",
                                         p |-> IF c = 1 THEN 1 ELSE 0]]
        /\ promptStore = SeededPrompts
        /\ entryStore = {LoadedEntries(n, len, step)[i] : i \in 1..n}
        /\ dbLog = NoCall
        /\ view = "DATABASE"
        /\ appPc = "ready"
        /\ an = AnalyzerInitial
        /\ pm = PromptManagerInitial
        /\ kb = [KnowledgeBaseInitial EXCEPT !.entries = LoadedEntries(n, len, step)]
        /\ tasks = {}
        /\ alertMsg = NoAlert
        /\ nextId = MaxListLen + 2
        /\ now = 1
        /\ ops = 0
        /\ resultFrom = NoRequest
        /\ madeBy = {}

NextContext ==
    \/ \E x \in ChatQueries : KbSetQuery(x)
    \/ KbSmartSearch
    \/ \E t \in tasks, outcome \in ProviderOutcomes : KbAskDone(t, outcome)

SpecContext == InitContext /\ [][NextContext]_vars

\* The default template and a template imported in an earlier session from
\* a file that gave it a title and a content only: the record stored has the
\* identifier handleImport generated and no createdAt
ImportedPrompts ==
    SeededPrompts \cup {[id |-> 2, title |-> "A", content |-> "X", createdAt |-> 0]}

InitEdit == PageLoad(ImportedPrompts, {}, 3)

SpecEdit == InitEdit /\ [][NextPrompts]_vars

\* The first run with the user working in the Analyzer and in PromptManager:
\* every path that writes a template or an entry
InitWrites == PageLoad({}, {}, 1)

NextWrites ==
    \/ AppStart
    \/ \E k \in DOMAIN opens : OpenSuccess(k)
    \/ CallerSettle(1)
    \/ \E io \in BOOLEAN : AppSeed(io)
    \/ \E v \in {"ANALYZER", "DATABASE", "PROMPTS"}, io \in BOOLEAN : SetView(v, io)
    \/ \E t \in tasks : AnLoadDone(t)
    \/ \E t \in tasks : PmLoadDone(t)
    \/ \E t \in tasks : KbLoadDone(t)
    \/ \E x \in InputTexts : AnSetInput(x)
    \/ \E x \in Titles : AnSetTitle(x)
    \/ AnRunAnalysis
    \/ \E t \in tasks, outcome \in ProviderOutcomes : AnRunDone(t, outcome)
    \/ \E io \in BOOLEAN : AnSave(io)
    \/ \E t \in tasks, io \in BOOLEAN : AnSaveDone(t, io)
    \/ \E i \in {0} \cup DOMAIN pm.prompts : PmEdit(i)
    \/ \E x \in PromptTitles : PmSetTitle(x)
    \/ \E x \in PromptContents : PmSetContent(x)
    \/ \E io \in BOOLEAN : PmSave(io)
    \/ \E t \in tasks, io \in BOOLEAN : PmSaveDone(t, io)
    \/ \E file \in ImportFiles : PmImport(file)
    \/ \E t \in tasks, io \in BOOLEAN : PmImportStep(t, io)

SpecWrites == InitWrites /\ [][NextWrites]_vars

\* The Analyzer with its Save button clicked again while a write is pending:
\* the page load finds the two templates.
InitSave == PageLoad(StoredPrompts, {}, 3)

NextSave ==
    \/ AppStart
    \/ \E k \in DOMAIN opens : OpenSuccess(k)
    \/ CallerSettle(1)
    \/ \E io \in BOOLEAN : AppSeed(io)
    \/ \E v \in {"ANALYZER", "DATABASE", "PROMPTS"}, io \in BOOLEAN : SetView(v, io)
    \/ \E t \in tasks : AnLoadDone(t)
    \/ \E t \in tasks : PmLoadDone(t)
    \/ \E t \in tasks : KbLoadDone(t)
    \/ \E x \in InputTexts : AnSetInput(x)
    \/ \E x \in Titles : AnSetTitle(x)
    \/ AnRunAnalysis
    \/ \E t \in tasks, outcome \in ProviderOutcomes : AnRunDone(t, outcome)
    \/ \E io \in BOOLEAN : AnSave(io)
    \/ \E io \in BOOLEAN : AnSaveAgain(io)
    \/ \E t \in tasks, io \in BOOLEAN : AnSaveDone(t, io)

SpecSave == InitSave /\ [][NextSave]_vars

\* ===================================================================
\* Properties

\* C1: calls of init() are coalesced.  No indexedDB.open is started while an
\* earlier open is pending or has succeeded; a caller that arrives while an
\* open is pending gets the promise of that open and settles with its outcome;
\* a caller that arrives after success resolves without opening.
C1_InitCoalesced ==
    /\ [][/\ LiveOpens # {} => Len(opens') = Len(opens)
          /\ \A c \in Callers : DBInit(c) /\ PendingOpens # {} =>
                /\ callers'[c].st = "waiting"
                /\ callers'[c].p \in PendingOpens
          /\ \A c \in Callers : DBInit(c) /\ db =>
                /\ callers'[c].st = "resolved"
                /\ opens' = opens]_vars
    /\ [](Cardinality(PendingOpens) <= 1)
    /\ [](\A c \in Callers :
            /\ callers[c].st = "resolved" /\ callers[c].p # 0 => opens[callers[c].p] = "success"
            /\ callers[c].st = "rejected" => opens[callers[c].p] = "error")

\* Two callers shared one open and resolved with it, a third arrived after
\* success and resolved without a promise of an open.
C1_Witness ==
    \E c1, c2, c3 \in Callers :
        /\ c1 # c2
        /\ callers[c1] = [st |-> "resolved", p |-> Len(opens)]
        /\ callers[c2] = callers[c1]
        /\ callers[c3] = [st |-> "resolved", p |-> 0]
        /\ Len(opens) = 2 /\ opens[1] = "error"

\* C2: a template saved with savePrompt is listed by the next getAllPrompts
\* exactly once under its identifier, with the title and content saved; a
\* savePrompt under an identifier already stored replaces that record and
\* does not change the number of stored templates.
C2_SaveThenList ==
    /\ [](dbLog.op = "getAllPrompts" /\ dbLog.ok
            /\ dbLog.prev.op = "savePrompt" /\ dbLog.prev.ok =>
            LET hits == {i \in DOMAIN dbLog.result : dbLog.result[i].id = dbLog.prev.rec.id}
            IN /\ Cardinality(hits) = 1
               /\ \A i \in hits : dbLog.result[i] = dbLog.prev.rec)
    /\ [][\A p \in PromptInputs :
            SavePrompt(p, TRUE) /\ p.id \in Keys(promptStore) =>
                /\ Cardinality(promptStore') = Cardinality(promptStore)
                /\ {r \in promptStore' : r.id = p.id} = {p}
                /\ {r \in promptStore' : r.id # p.id} = {r \in promptStore : r.id # p.id}]_vars

\* A stored template was overwritten with other content and then listed
\* together with a second template.
C2_Witness ==
    /\ dbLog.op = "getAllPrompts" /\ dbLog.ok
    /\ dbLog.prev.op = "savePrompt" /\ dbLog.prev.ok /\ dbLog.prev.present
    /\ Len(dbLog.result) = 2
    /\ dbLog.prev.rec.content = "Y"

\* C3: deletePrompt and deleteEntry of an identifier that is not stored
\* resolve (unless the request itself fails in the engine) and leave both
\* stores as they were.
C3_DeleteAbsent ==
    [][/\ \A id \in 1..MaxKey :
            DeletePrompt(id, TRUE) /\ id \notin Keys(promptStore) =>
                /\ dbLog'.ok
                /\ UNCHANGED <<promptStore, entryStore>>
       /\ \A id \in 1..MaxKey :
            DeleteEntry(id, TRUE) /\ id \notin Keys(entryStore) =>
                /\ dbLog'.ok
                /\ UNCHANGED <<promptStore, entryStore>>]_vars

\* A delete of an identifier that is not stored resolved while both stores
\* held a record under another identifier.
C3_Witness ==
    /\ dbLog.op \in {"deletePrompt", "deleteEntry"}
    /\ ~dbLog.present /\ dbLog.ok
    /\ promptStore # {} /\ entryStore # {}

\* C4: getAllEntries returns every stored entry once, in non-increasing order
\* of timestamp, and a second call with no call in between returns the same
\* sequence.
C4_EntriesNewestFirst ==
    /\ [](dbLog.op = "getAllEntries" /\ dbLog.ok =>
            LET s == dbLog.result
            IN /\ {s[i] : i \in DOMAIN s} = entryStore
               /\ Len(s) = Cardinality(entryStore)
               /\ \A i, j \in DOMAIN s : i < j => s[i].timestamp >= s[j].timestamp)
    /\ [][dbLog.op = "getAllEntries" /\ dbLog.ok
            /\ dbLog'.op = "getAllEntries" /\ dbLog'.ok /\ dbLog' # dbLog =>
            dbLog'.result = dbLog.result]_vars

\* Two entries with equal timestamps were listed twice in a row.
C4_Witness ==
    /\ dbLog.op = "getAllEntries" /\ dbLog.ok
    /\ dbLog.prev.op = "getAllEntries" /\ dbLog.prev.ok
    /\ Len(dbLog.result) = 2
    /\ dbLog.result[1].timestamp = dbLog.result[2].timestamp
    /\ dbLog.result[1].id > dbLog.result[2].id

\* C5: no step of a template operation (seed, editor save, delete, import)
\* changes or removes a persisted entry: every entry stays in the store as it
\* is, except in a step that calls deleteEntry for its identifier.
C5_EntriesKeptAsSaved ==
    [][\A e \in entryStore :
          \/ e \in entryStore'
          \/ \E t \in tasks' \ tasks : t.kind = "deleteEntry" /\ t.n = e.id]_vars

\* The template an entry was saved from was deleted and the list reloaded,
\* and the entry is still stored as it was.
C5_Witness ==
    /\ entryStore = EntriesOfSeed
    /\ promptStore = {}
    /\ ops = 1
    /\ view = "PROMPTS"
    /\ pm.prompts = <<>>
    /\ tasks = {}

\* C6: every persisted entry carries the identifier and the content of the
\* template that was sent with the request whose response is its analysis.
C6_SnapshotOfGeneration ==
    \A e \in entryStore : \A m \in madeBy :
        m[1] = e.id =>
            /\ e.promptSnapshot = m[2].instruction
            /\ e.promptId = m[2].promptId

\* C7: handleRunAnalysis with an input that is empty after trimming, or with
\* no template selected, sends no request, sets a validation message and
\* leaves the stores, the input, the title and the result as they are.
C7_RejectedBeforeAnyCall ==
    [][AnRunAnalysis /\ (Trim(an.inputText) = <<>> \/ an.selectedPromptId = 0) =>
          /\ tasks' = tasks
          /\ an'.error \in {"Please enter text to analyze.", "Please select a prompt."}
          /\ an'.isAnalyzing = an.isAnalyzing
          /\ UNCHANGED <<promptStore, entryStore>>
          /\ an'.inputText = an.inputText
          /\ an'.title = an.title
          /\ an'.result = an.result]_vars

\* A run was rejected for a whitespace input while an earlier result and a
\* title were on the form.
C7_Witness ==
    /\ an.error = "Please enter text to analyze."
    /\ an.inputText = <<" ">>
    /\ an.result # ""
    /\ an.title = "N"

\* C8: an import step that writes an item without identifier adds exactly one
\* template, under a fresh identifier that is not empty, with the title and
\* content of the item; the import of a list of that one item ends reporting
\* one template.  The import of a value that is not a list writes nothing and
\* reports a failure.
C8_ImportOneOrNone ==
    [][\A t \in tasks, io \in BOOLEAN :
          PmImportStep(t, io) =>
            LET i == NextValid(t.data, t.pos)
            IN /\ ~t.ok =>
                    /\ promptStore' = promptStore
                    /\ alertMsg' = FailedAlert
                    /\ \A u \in tasks' : u.kind # "import" \/ u \in tasks
               /\ t.ok /\ io /\ i # 0 /\ t.data[i].id = 0 =>
                    /\ Cardinality(promptStore') = Cardinality(promptStore) + 1
                    /\ promptStore \subseteq promptStore'
                    /\ \A p \in promptStore' \ promptStore :
                          /\ p.id # 0
                          /\ p.id \notin Keys(promptStore)
                          /\ p.title = t.data[i].title
                          /\ p.content = t.data[i].content
               /\ t.ok /\ i = 0 /\ Len(t.data) = 1 /\ ImportValid(t.data[1]) =>
                    alertMsg' = ImportedAlert(1)]_vars

\* The import of the one object without identifier has ended: the template
\* is stored under the identifier 2 and one template was reported.
C8_Witness ==
    /\ alertMsg = ImportedAlert(1)
    /\ \E p \in promptStore : p.id = 2 /\ p.createdAt = 0 /\ p.title = "A" /\ p.content = "X"
    /\ \A t \in tasks : t.kind # "import"

\* C9 as stated: an import of a list with an item that has no title or no
\* content ends with the failure alert, and no such item is ever stored.
HasInvalid(items) == \E i \in DOMAIN items : items[i].title = "" \/ items[i].content = ""

C10_EmptyListStillAnswered ==
    /\ [][KbSmartSearch /\ kb.entries = <<>> =>
            /\ Cardinality(tasks' \ tasks) = 1
            /\ \A t \in tasks' \ tasks :
                  /\ t.kind = "ask"
                  /\ t.req.context = <<>>
                  /\ t.req.text = kb.chatQuery]_vars
    /\ [][\A t \in tasks, outcome \in ProviderOutcomes :
            KbAskDone(t, outcome) /\ t.live /\ t.req.context = <<>> =>
                /\ Len(kb'.chatHistory) = Len(kb.chatHistory) + 1
                /\ SubSeq(kb'.chatHistory, 1, Len(kb.chatHistory)) = kb.chatHistory
                /\ kb'.chatHistory[Len(kb'.chatHistory)].role = "model"
                /\ kb'.chatHistory[Len(kb'.chatHistory)].text =
                      CASE outcome = "text" -> "R"
                        [] outcome = "empty" -> "I couldn't find an answer in your database."
                        [] outcome = "error" -> "Sorry, I encountered an error searching your database."
                /\ ~kb'.isChatting]_vars

\* No entry was ever stored, the one question asked was answered with the
\* fallback text.
C10_Witness ==
    /\ entryStore = {}
    /\ kb.entries = <<>>
    /\ ops = 1
    /\ ~kb.isChatting
    /\ Len(kb.chatHistory) = 2
    /\ kb.chatHistory[1].role = "user"
    /\ kb.chatHistory[2].role = "model"
    /\ kb.chatHistory[2].text = "I couldn't find an answer in your database."

\* C11: a submission appends one user message with the query, sets isChatting
\* and sends exactly one request; when the request settles in the mounted view
\* one model message is appended after the question it answers, with the
\* answer or with the apology, and isChatting is cleared.  While the view
\* stays mounted the conversation is only extended at its end; isChatting
\* holds exactly while one request of the view is pending, and whenever it
\* does not hold the conversation is a sequence of user/model pairs.
LiveAsks == {t \in tasks : t.kind = "ask" /\ t.live}

C11_ChatAlternates ==
    /\ [][KbSmartSearch =>
            /\ kb'.chatHistory = Append(kb.chatHistory,
                                        [role |-> "user", text |-> kb.chatQuery, timestamp |-> now])
            /\ kb'.isChatting
            /\ Cardinality(tasks' \ tasks) = 1
            /\ \A t \in tasks' \ tasks :
                  t.kind = "ask" /\ t.req.text = kb.chatQuery /\ Trim(t.req.text) # <<>>]_vars
    /\ [][\A t \in tasks, outcome \in ProviderOutcomes :
            KbAskDone(t, outcome) /\ t.live =>
                /\ kb.chatHistory # <<>>
                /\ kb.chatHistory[Len(kb.chatHistory)].role = "user"
                /\ kb.chatHistory[Len(kb.chatHistory)].text = t.req.text
                /\ kb'.chatHistory = Append(kb.chatHistory,
                      [role |-> "model", timestamp |-> now,
                       text |-> CASE outcome = "text" -> "R"
                                  [] outcome = "empty" -> "I couldn't find an answer in your database."
                                  [] outcome = "error" -> "Sorry, I encountered an error searching your database."])
                /\ ~kb'.isChatting
                /\ tasks' = tasks \ {t}]_vars
    /\ [][view = "DATABASE" /\ view' = "DATABASE" =>
            /\ Len(kb'.chatHistory) >= Len(kb.chatHistory)
            /\ SubSeq(kb'.chatHistory, 1, Len(kb.chatHistory)) = kb.chatHistory]_vars
    /\ [](Cardinality(LiveAsks) = IF kb.isChatting THEN 1 ELSE 0)
    /\ [](~kb.isChatting =>
            /\ Len(kb.chatHistory) % 2 = 0
            /\ \A i \in DOMAIN kb.chatHistory :
                  kb.chatHistory[i].role = IF i % 2 = 1 THEN "user" ELSE "model")

\* Two questions were asked: the first was answered by the provider, the
\* request of the second failed.
C11_Witness ==
    /\ ~kb.isChatting
    /\ Len(kb.chatHistory) = 4
    /\ kb.chatHistory[1].role = "user"
    /\ kb.chatHistory[2].text = "R"
    /\ kb.chatHistory[3].role = "user"
    /\ kb.chatHistory[4].text = "Sorry, I encountered an error searching your database."

\* C12: a run that passes validation sends exactly one request and sets
\* isAnalyzing; when the request settles in the mounted view, isAnalyzing is
\* cleared and either a result is available and no error is shown, or the
\* error is shown and no result is available; nothing but handleRunAnalysis
\* sends a request, and isAnalyzing holds exactly while one request of the
\* view is pending.
LiveRuns == {t \in tasks : t.kind = "run" /\ t.live}

C12_ReadyOrFailed ==
    /\ [][AnRunAnalysis /\ Trim(an.inputText) # <<>>
                /\ Find(an.prompts, an.selectedPromptId).id # 0 =>
            /\ Cardinality(tasks' \ tasks) = 1
            /\ \A t \in tasks' \ tasks :
                  /\ t.kind = "run"
                  /\ t.req.text = an.inputText
                  /\ t.req.promptId = an.selectedPromptId
            /\ an'.isAnalyzing /\ an'.result = "" /\ an'.error = ""]_vars
    /\ [][\A t \in tasks, outcome \in ProviderOutcomes :
            AnRunDone(t, outcome) /\ t.live =>
                /\ ~an'.isAnalyzing
                /\ tasks' = tasks \ {t}
                /\ IF outcome = "error"
                   THEN an'.result = "" /\ an'.error # ""
                   ELSE an'.result # "" /\ an'.error = ""]_vars
    /\ [][(\E t \in tasks' \ tasks : t.kind = "run" /\ t.live) => AnRunAnalysis]_vars
    /\ [](Cardinality(LiveRuns) = IF an.isAnalyzing THEN 1 ELSE 0)

\* A request failed: the error is shown, no result is available and nothing
\* is pending.
C12_Witness ==
    /\ an.error = "Failed to generate analysis. Please check your connection and API key."
    /\ an.result = ""
    /\ ~an.isAnalyzing
    /\ ops = 1
    /\ tasks = {}

\* C13: every step that changes the store of entries is a step of handleSave
\* taken while the result of a request that was answered is shown and no
\* request is pending; it adds one entry, which holds that result.  A step of
\* handleRunAnalysis, the settling of a request and a validation rejection
\* leave the store of entries as it is.
C13_WrittenOnlyBySave ==
    [][entryStore' # entryStore =>
          /\ \E io \in BOOLEAN : AnSave(io)
          /\ an.result # ""
          /\ resultFrom.kind = "analyze"
          /\ ~an.isAnalyzing
          /\ LiveRuns = {}
          /\ entryStore \subseteq entryStore'
          /\ Cardinality(entryStore' \ entryStore) = 1
          /\ \A e \in entryStore' \ entryStore : e.analysis = an.result]_vars

\* An entry was saved from the result of an answered request.
C13_Witness ==
    /\ \E e \in entryStore : e.analysis = "R" /\ e.originalText = <<"T">>
    /\ \E m \in madeBy : m[2].kind = "analyze"
    /\ view = "DATABASE"

C15_EditKeepsIdAndStamp ==
    [][PmSave(TRUE) /\ pm.currentPrompt.id \in Keys(promptStore) =>
          /\ Keys(promptStore') = Keys(promptStore)
          /\ \A p \in promptStore : \A q \in promptStore' :
                q.id = p.id => q.createdAt = p.createdAt]_vars

\* C16: every template stored has a title and a content that are not empty,
\* and every entry stored has a title and an analysis that are not empty.
C16_FieldsNotEmpty ==
    /\ \A p \in promptStore : p.title # "" /\ p.content # ""
    /\ \A e \in entryStore : e.title # "" /\ e.analysis # ""

\* The seed is stored and an entry was saved while the title field was
\* empty: it is stored under the default title.
C16_Witness ==
    /\ \E p \in promptStore : p.title = "General Summary"
    /\ \E e \in entryStore : e.title = "Analysis - date" /\ e.analysis # ""
    /\ \A t \in tasks : t.kind # "save"

\* C17: when the write of a save of the Analyzer fails, a message is shown in
\* the Analyzer, no further call is made, and the input text, the title and
\* the result stay as they were.
C17_SaveFailureShown ==
    [][\A t \in tasks :
          (t.kind = "save" /\ t.live /\ ~t.ok /\ \E io \in BOOLEAN : AnSaveDone(t, io))
          => /\ an'.error # ""
             /\ tasks' \subseteq tasks
             /\ an'.inputText = an.inputText
             /\ an'.title = an.title
             /\ an'.result = an.result]_vars

\* The calls of the mounted Analyzer that have not settled
AnalyzerInFlight ==
    {t \in tasks : t.owner = "ANALYZER" /\ t.live /\ t.kind \in {"run", "save"}}

\* C18: the Analyzer has at most one generation call or entry write in
\* flight at any time.
C18_OneInFlight == Cardinality(AnalyzerInFlight) <= 1

\* C19: a call the Analyzer started that settles after the user has left the
\* Analyzer changes neither the view nor the state of any component.
C19_LateCompletionDiscarded ==
    [][\A t \in tasks :
          (/\ t.owner = "ANALYZER" /\ ~t.live
           /\ \/ \E outcome \in ProviderOutcomes : AnRunDone(t, outcome)
              \/ \E io \in BOOLEAN : AnSaveDone(t, io))
          => view' = view /\ an' = an /\ pm' = pm /\ kb' = kb]_vars

\* C20: no two entries stored hold the response of one generation request.
C20_OneEntryPerResult ==
    \A m1, m2 \in madeBy : m1[2] = m2[2] => m1[1] = m2[1]

====
